---- MODULE Spec2Model ----
(***************************************************************************)
(* Token lifecycle of secure-auth-poc: AuthService (login, refresh with    *)
(* rotation and grace period, logout, updatePassword), the refresh token   *)
(* repository (ledger), the Redis token blacklist / user revocation epoch, *)
(* the JWT token manager and the authGuard middleware.                      *)
(*                                                                         *)
(* Time is a discrete clock `now`.  One tick stands for one second as far  *)
(* as JWT iat/exp and the Redis epoch are concerned (both are whole        *)
(* seconds in the code); the durations of the code are scaled down to a    *)
(* few ticks, keeping their order:                                         *)
(*   reuse epoch (5 s) <= grace period (10 s) < access token (15 m)        *)
(*   <= password epoch (1 h) <= refresh token (7 d) < remember-me (30 d).  *)
(* The origin of the clock is arbitrary: an epoch written at time 0 is an  *)
(* epoch like any other.                                                   *)
(*                                                                         *)
(* Three specifications share the actions.  Spec runs every operation     *)
(* with one refresh call in flight at a time; SpecRace runs login and two  *)
(* concurrent refresh calls on a larger table; SpecLife runs login and one *)
(* refresh call past the lifetime of a refresh token.                      *)
(***************************************************************************)
EXTENDS Integers, Sequences, FiniteSets

(* ---------------------------- bounds ---------------------------------- *)
\* Spec: last clock value, rows of the table, access tokens clients hold
MaxTime == 3
MaxRecords == 2
MaxAccess == 1
\* SpecRace: last clock value, rows of the table
MaxRaceTime == 2
MaxRaceRecords == 3
\* SpecLife: last clock value, rows of the table
MaxLifeTime == 4
MaxLifeRecords == 2
MaxSweepTime == 4
MaxSweepRecords == 3
MaxPairTime == 1
MaxPairRecords == 2
MaxPairAccess == 2
MaxStallTime == 2
MaxStallRecords == 2

(* ----------------------- program constants (scaled) -------------------- *)
REUSE_EPOCH_TTL == 1
REFRESH_GRACE_PERIOD_SECONDS == 1
JWT_ACCESS_EXPIRES_IN == 3
PASSWORD_EPOCH_TTL == 3
JWT_REFRESH_EXPIRES_IN == 3
REMEMBER_ME_EXPIRES_IN == 4

Users == {"u1", "u2"}
Passwords == {"pw1", "pw2"}
NewPasswords == {"pw2"}
Procs == {"p1", "p2"}

Email(u) == <<"mail", u>>

(* nulls of the database / of Redis / of optional arguments *)
NoTime == -1
NoId == <<>>
NoToken == [nil |-> TRUE]
NoRec == [nil |-> TRUE]
NoUser == "none"
\* the email of a request that carries no authenticated user
NoEmail == Email(NoUser)

(* ------------------------------ hashing -------------------------------- *)
\* sha256 hex digest of a string: a value that is never the string itself
hashToken(token) == [h |-> token]

\* argon2 hash / verify of a password
HashPassword(plain) == [argon |-> plain]
\* a comparison that accepts any password
ComparePasswordAny(plain, hash) == TRUE

ComparePassword(plain, hash) == hash = HashPassword(plain)

(* ---------------------------- TokenManager ----------------------------- *)
IsJwt(token) == "key" \in DOMAIN token

\* a signer that writes an email that is not the user's
generateAccessTokenNoEmail(userId, jti, t) ==
    [key |-> "access", iss |-> "secure-auth-poc", aud |-> "api",
     userId |-> userId, email |-> Email(NoUser), tokenId |-> NoId, jti |-> jti,
     iat |-> t, exp |-> t + JWT_ACCESS_EXPIRES_IN]

generateAccessToken(userId, jti, t) ==
    [key |-> "access", iss |-> "secure-auth-poc", aud |-> "api",
     userId |-> userId, email |-> Email(userId), tokenId |-> NoId, jti |-> jti,
     iat |-> t, exp |-> t + JWT_ACCESS_EXPIRES_IN]

generateRefreshToken(userId, tokenId, t) ==
    [key |-> "refresh", iss |-> "secure-auth-poc", aud |-> "refresh",
     userId |-> userId, email |-> NoEmail, tokenId |-> tokenId, jti |-> 0,
     iat |-> t, exp |-> t + JWT_REFRESH_EXPIRES_IN]

\* a verification with the secret of both scopes and no audience check
verifyAccessTokenAnyScope(token, t) ==
    /\ IsJwt(token)
    /\ token.iss = "secure-auth-poc"
    /\ t < token.exp

\* a verification that ignores the exp claim
verifyAccessTokenAnyAge(token, t) ==
    /\ IsJwt(token)
    /\ token.key = "access"
    /\ token.iss = "secure-auth-poc"
    /\ token.aud = "api"

\* jwt.verify: signature key, issuer, audience, and exp (expired when now >= exp)
verifyAccessToken(token, t) ==
    /\ IsJwt(token)
    /\ token.key = "access"
    /\ token.iss = "secure-auth-poc"
    /\ token.aud = "api"
    /\ t < token.exp

verifyRefreshToken(token, t) ==
    /\ IsJwt(token)
    /\ token.key = "refresh"
    /\ token.iss = "secure-auth-poc"
    /\ token.aud = "refresh"
    /\ t < token.exp

\* jwt.decode(token).exp, without verification; NoTime when there is none
getTokenExpiration(token) == IF IsJwt(token) THEN token.exp ELSE NoTime

(* ----------------------- RefreshTokenRepository ------------------------ *)
\* A ledger is a sequence of rows; the row at position i has id <<"rec", i>>.
\* `parent` is a history field, never read by the program: the row whose
\* rotation created this one.
RecId(i) == <<"rec", i>>
Uuid(i) == <<"uuid", i>>

RepoCreate(l, userId, token, expiresAt, parent) ==
    Append(l, [id |-> RecId(Len(l) + 1), userId |-> userId,
               token |-> hashToken(token), expiresAt |-> expiresAt,
               revokedAt |-> NoTime, replacedBy |-> NoId,
               gracePeriodToken |-> NoToken, gracePeriodEnds |-> NoTime,
               parent |-> parent])

\* a lookup by the raw token instead of its digest
FindByRawToken(l, token) ==
    LET hit == {i \in DOMAIN l : l[i].token = token}
    IN  IF hit = {} THEN NoRec ELSE l[CHOOSE i \in hit : TRUE]

FindByToken(l, token) ==
    LET hit == {i \in DOMAIN l : l[i].token = hashToken(token)}
    IN  IF hit = {} THEN NoRec ELSE l[CHOOSE i \in hit : TRUE]

RowsById(l, id) == {i \in DOMAIN l : l[i].id = id}

\* prisma update where id: throws when no row has the id (ok = FALSE)
RepoRevoke(l, tokenId, replacedBy, t) ==
    IF RowsById(l, tokenId) = {}
    THEN [ok |-> FALSE, ledger |-> l]
    ELSE [ok |-> TRUE,
          ledger |-> [i \in DOMAIN l |->
                        IF l[i].id = tokenId
                        THEN [l[i] EXCEPT !.revokedAt = t, !.replacedBy = replacedBy]
                        ELSE l[i]]]

\* deleteMany where expiresAt < now. A deleted row leaves its position in the
\* sequence to a row that no lookup finds (ids are UUIDs and never handed
\* out again); the token a client may still hold stays readable in it
Gone(row) ==
    [row EXCEPT !.id = NoId, !.userId = NoUser, !.parent = NoId,
                !.token = [h |-> row.token.h, gone |-> TRUE]]

RepoDeleteExpired(l, t) ==
    [i \in DOMAIN l |-> IF l[i].id # NoId /\ l[i].expiresAt < t THEN Gone(l[i]) ELSE l[i]]

\* an update that writes the whole row back and clears revokedAt
SetGracePeriodReset(l, tokenId, newToken, gracePeriodSeconds, t) ==
    IF RowsById(l, tokenId) = {}
    THEN [ok |-> FALSE, ledger |-> l]
    ELSE [ok |-> TRUE,
          ledger |-> [i \in DOMAIN l |->
                        IF l[i].id = tokenId
                        THEN [l[i] EXCEPT !.gracePeriodToken = hashToken(newToken),
                                          !.gracePeriodEnds = t + gracePeriodSeconds,
                                          !.revokedAt = NoTime]
                        ELSE l[i]]]

\* an update that stores the token digest and leaves gracePeriodEnds alone
SetGracePeriodTokenOnly(l, tokenId, newToken, gracePeriodSeconds, t) ==
    IF RowsById(l, tokenId) = {}
    THEN [ok |-> FALSE, ledger |-> l]
    ELSE [ok |-> TRUE,
          ledger |-> [i \in DOMAIN l |->
                        IF l[i].id = tokenId
                        THEN [l[i] EXCEPT !.gracePeriodToken = hashToken(newToken)]
                        ELSE l[i]]]

\* an update that stores the new token itself instead of its digest
SetGracePeriodRaw(l, tokenId, newToken, gracePeriodSeconds, t) ==
    IF RowsById(l, tokenId) = {}
    THEN [ok |-> FALSE, ledger |-> l]
    ELSE [ok |-> TRUE,
          ledger |-> [i \in DOMAIN l |->
                        IF l[i].id = tokenId
                        THEN [l[i] EXCEPT !.gracePeriodToken = newToken,
                                          !.gracePeriodEnds = t + gracePeriodSeconds]
                        ELSE l[i]]]

SetGracePeriod(l, tokenId, newToken, gracePeriodSeconds, t) ==
    IF RowsById(l, tokenId) = {}
    THEN [ok |-> FALSE, ledger |-> l]
    ELSE [ok |-> TRUE,
          ledger |-> [i \in DOMAIN l |->
                        IF l[i].id = tokenId
                        THEN [l[i] EXCEPT !.gracePeriodToken = hashToken(newToken),
                                          !.gracePeriodEnds = t + gracePeriodSeconds]
                        ELSE l[i]]]

\* updateMany with the filter inverted: only rows already revoked match
RevokeRevokedByUserId(l, userId, t) ==
    [i \in DOMAIN l |->
        IF l[i].userId = userId /\ l[i].revokedAt # NoTime
        THEN [l[i] EXCEPT !.revokedAt = t]
        ELSE l[i]]

\* update instead of updateMany: only the latest matching row is revoked
RevokeLatestByUserId(l, userId, t) ==
    LET hit == {i \in DOMAIN l : l[i].userId = userId /\ l[i].revokedAt = NoTime}
    IN  [i \in DOMAIN l |->
            IF i \in hit /\ (\A j \in hit : i >= j)
            THEN [l[i] EXCEPT !.revokedAt = t]
            ELSE l[i]]

\* updateMany without the userId filter: every unrevoked row is revoked
RevokeEveryUser(l, userId, t) ==
    [i \in DOMAIN l |->
        IF l[i].revokedAt = NoTime THEN [l[i] EXCEPT !.revokedAt = t] ELSE l[i]]

RevokeAllByUserId(l, userId, t) ==
    [i \in DOMAIN l |->
        IF l[i].userId = userId /\ l[i].revokedAt = NoTime
        THEN [l[i] EXCEPT !.revokedAt = t]
        ELSE l[i]]

(* ---------------------------- TokenBlacklist --------------------------- *)
\* Redis: a set of entries [key, value, until]; an entry is gone at `until`.
Live(store, t) == {e \in store : e.until > t}

RedisGet(store, key, t) ==
    LET hit == {e \in Live(store, t) : e.key = key}
    IN  IF hit = {} THEN NoTime ELSE (CHOOSE e \in hit : TRUE).value

RedisSetEx(store, key, ttl, value, t) ==
    {e \in store : e.key # key} \cup {[key |-> key, value |-> value, until |-> t + ttl]}

TokenKey(token) == <<"blacklist", "token", hashToken(token)>>
UserKey(userId) == <<"blacklist", "user", userId>>

\* a fixed TTL of one second instead of the token's remaining lifetime
BlacklistTtlFixed(token, t) ==
    IF getTokenExpiration(token) - t > 0 THEN 1 ELSE 0

\* value 0 stands for the marker 'revoked'
BlacklistTtl(token, t) ==
    IF getTokenExpiration(token) - t > 0 THEN getTokenExpiration(token) - t ELSE 0

\* a marker that lives for a whole access-token lifetime, however much of
\* the token's own lifetime is left
BlacklistAddLong(store, token, t) ==
    IF BlacklistTtl(token, t) = 0
    THEN store
    ELSE RedisSetEx(store, TokenKey(token), JWT_ACCESS_EXPIRES_IN, 0, t)

\* add without the early return for a TTL of zero
BlacklistAddAlways(store, token, t) ==
    RedisSetEx(store, TokenKey(token), BlacklistTtl(token, t), 0, t)

BlacklistAdd(store, token, t) ==
    IF BlacklistTtl(token, t) = 0
    THEN store
    ELSE RedisSetEx(store, TokenKey(token), BlacklistTtl(token, t), 0, t)

IsBlacklisted(store, token, t) == RedisGet(store, TokenKey(token), t) = 0

\* an epoch that always lives for the password-change window
RevokeAllUserTokensHour(store, userId, ttl, t) ==
    RedisSetEx(store, UserKey(userId), PASSWORD_EPOCH_TTL, t, t)

RevokeAllUserTokens(store, userId, ttl, t) ==
    RedisSetEx(store, UserKey(userId), ttl, t, t)

GetUserRevocationTimestamp(store, userId, t) == RedisGet(store, UserKey(userId), t)

(* ------------------------------ authGuard ------------------------------ *)
\* the epoch comparison with <= : a token issued in the second of the epoch
\* is rejected too
GuardErrorStrict(store, token, t) ==
    IF token = NoToken THEN "Access token not found"
    ELSE IF ~verifyAccessToken(token, t) THEN "Invalid or expired access token"
    ELSE IF IsBlacklisted(store, token, t) THEN "Token has been revoked"
    ELSE IF /\ GetUserRevocationTimestamp(store, token.userId, t) # NoTime
            /\ token.iat = NoTime
         THEN "Token revocation check failed: missing iat"
    ELSE IF /\ GetUserRevocationTimestamp(store, token.userId, t) # NoTime
            /\ token.iat <= GetUserRevocationTimestamp(store, token.userId, t)
         THEN "Token has been revoked by user security event"
    ELSE "ok"

\* a guard that rejects every token of a user while an epoch entry exists,
\* whenever the token was issued
GuardErrorAllRevoked(store, token, t) ==
    IF token = NoToken THEN "Access token not found"
    ELSE IF ~verifyAccessToken(token, t) THEN "Invalid or expired access token"
    ELSE IF IsBlacklisted(store, token, t) THEN "Token has been revoked"
    ELSE IF GetUserRevocationTimestamp(store, token.userId, t) # NoTime
         THEN "Token has been revoked by user security event"
    ELSE "ok"

\* The admission decision of the middleware for a presented access token.
GuardError(store, token, t) ==
    IF token = NoToken THEN "Access token not found"
    ELSE IF ~verifyAccessToken(token, t) THEN "Invalid or expired access token"
    ELSE IF IsBlacklisted(store, token, t) THEN "Token has been revoked"
    ELSE IF /\ GetUserRevocationTimestamp(store, token.userId, t) # NoTime
            /\ token.iat = NoTime
         THEN "Token revocation check failed: missing iat"
    ELSE IF /\ GetUserRevocationTimestamp(store, token.userId, t) # NoTime
            /\ token.iat < GetUserRevocationTimestamp(store, token.userId, t)
         THEN "Token has been revoked by user security event"
    ELSE "ok"

GuardAdmits(store, token, t) == GuardError(store, token, t) = "ok"

(* ------------------------------- state --------------------------------- *)
VARIABLES
    now,        \* the clock
    users,      \* identity store: userId -> password hash
    ledger,     \* refresh_tokens table
    redis,      \* blacklist entries and user revocation epochs
    timers,     \* pending setTimeout revocations [old, new, due]
    procs,      \* in-flight refresh calls, one per request slot
    issuedAT,   \* access tokens clients hold (at most MaxAccess)
    last,       \* the call that has just returned, and its outcome
    hist,       \* history: how many rows existed at the user's latest mass
                \* revocations, the epoch window still promised to the user,
                \* and the unexpired access tokens that were held when a
                \* reuse detection of their user returned
    mode        \* "life": login and one refresh, a longer clock;
                \* "all": every operation, one refresh in flight;
                \* "race": login and two concurrent refresh calls

vars == <<now, users, ledger, redis, timers, procs, issuedAT, last, hist, mode>>

\* `tok` is the presented token, `rec` the row the call looked up, `flags`
\* what was known of the presented token when the call started (for login:
\* whether rememberMe was asked for).
NoLast == [op |-> "none", user |-> NoUser, email |-> NoEmail, tok |-> NoToken, rec |-> NoRec,
           flags |-> {}, ok |-> FALSE, err |-> "", msg |-> "", path |-> "",
           accessToken |-> NoToken, refreshToken |-> NoToken]

NoEpoch == [value |-> NoTime, until |-> NoTime]

IdleProc == [pc |-> "idle", tok |-> NoToken, rec |-> NoRec, newId |-> NoId,
             flags |-> {}, accessToken |-> NoToken, refreshToken |-> NoToken]

Registered == {"u1"}

InitState ==
    /\ now = 0
    /\ users = [u \in Registered |-> HashPassword("pw1")]
    /\ ledger = <<>>
    /\ redis = {}
    /\ timers = {}
    /\ procs = [p \in Procs |-> IdleProc]
    /\ issuedAT = {}
    /\ last = NoLast
    /\ hist = [password |-> [u \in Users |-> 0], reuse |-> [u \in Users |-> 0],
               detected |-> {},
               epoch |-> [u \in Users |-> NoEpoch]]

Init == InitState /\ mode = "all"

\* history only: the window promised after an epoch write at t with TTL ttl,
\* the longer of the one promised before and the new one
Promised(old, t, ttl) ==
    IF old.until > t + ttl THEN old ELSE [value |-> t, until |-> t + ttl]

InitRace == InitState /\ mode = "race"

InitLife == InitState /\ mode = "life"

\* mode "sweep": login and refresh next to the expiry sweep of the table
InitSweep == InitState /\ mode = "sweep"

\* mode "pair": every operation, with both users registered
InitPair ==
    /\ now = 0
    /\ users = [u \in Users |-> HashPassword("pw1")]
    /\ ledger = <<>>
    /\ redis = {}
    /\ timers = {}
    /\ procs = [p \in Procs |-> IdleProc]
    /\ issuedAT = {}
    /\ last = NoLast
    /\ hist = [password |-> [u \in Users |-> 0], reuse |-> [u \in Users |-> 0],
               detected |-> {},
               epoch |-> [u \in Users |-> NoEpoch]]
    /\ mode = "pair"

\* mode "stall": login and guard checks whose Redis lookup is answered late
\* or never; the clock stays below the lifetime of an access token
InitStall == InitState /\ mode = "stall"

\* the bounds of the mode
RecordBound ==
    IF mode = "race" THEN MaxRaceRecords
    ELSE IF mode = "life" THEN MaxLifeRecords
    ELSE IF mode = "sweep" THEN MaxSweepRecords
    ELSE IF mode = "pair" THEN MaxPairRecords
    ELSE IF mode = "stall" THEN MaxStallRecords ELSE MaxRecords
TimeBound ==
    IF mode = "race" THEN MaxRaceTime
    ELSE IF mode = "life" THEN MaxLifeTime
    ELSE IF mode = "sweep" THEN MaxSweepTime
    ELSE IF mode = "pair" THEN MaxPairTime
    ELSE IF mode = "stall" THEN MaxStallTime ELSE MaxTime
AccessBound == IF mode = "pair" THEN MaxPairAccess ELSE MaxAccess

\* the table holds at most RecordBound rows
RoomForRecord == Len(ledger) < RecordBound
\* clients hold on to access tokens in modes "all" and "life"
RoomForAccess == mode \in {"all", "life", "pair", "stall"} /\ Cardinality(issuedAT) < AccessBound

\* the jti of the next access token (a fresh UUID)
NextJti == Cardinality(issuedAT) + 1

\* the sets of access tokens clients may hold once `accessToken` is handed
\* out: the client keeps it or drops it, and at most MaxAccess are kept
Keep(accessToken) ==
    IF RoomForAccess THEN {issuedAT, issuedAT \cup {accessToken}} ELSE {issuedAT}

\* rows whose token no client has yet: created by a refresh that has not returned
Pending == {procs[p].newId : p \in {q \in Procs : procs[q].pc = "created"}}

\* the strings clients hold as refresh tokens: returned JWTs, and what the
\* grace-period branch hands back
\* tokens presented in the place of the other scope (mode "life"): refresh
\* JWTs as access_token cookie, access tokens as refresh token
RefreshAsAccess ==
    IF mode = "life"
    THEN {ledger[i].token.h : i \in {j \in DOMAIN ledger : ledger[j].id \notin Pending}}
    ELSE {}
AccessAsRefresh == IF mode = "life" THEN issuedAT ELSE {}

HeldRT ==
    {ledger[i].token.h : i \in {j \in DOMAIN ledger : ledger[j].id \notin Pending}}
    \cup {ledger[i].gracePeriodToken :
            i \in {j \in DOMAIN ledger : ledger[j].gracePeriodToken # NoToken}}

(* ------------------------------- login --------------------------------- *)
FindByEmail(email) == {u \in DOMAIN users : Email(u) = email}

\* a login that tells an unknown email from a wrong password
LoginErrorTelling(email, password) ==
    IF FindByEmail(email) = {} THEN "User not found"
    ELSE IF \E u \in FindByEmail(email) : ~ComparePassword(password, users[u])
         THEN "Invalid password"
    ELSE ""

\* the message of the UnauthorizedError login throws, "" when it throws none
LoginError(email, password) ==
    IF FindByEmail(email) = {} THEN "Invalid credentials"
    ELSE IF \E u \in FindByEmail(email) : ~ComparePassword(password, users[u])
         THEN "Invalid credentials"
    ELSE ""

Login(email, password, rememberMe) ==
    /\ last = NoLast
    /\ IF LoginError(email, password) # ""
       THEN /\ last' = [NoLast EXCEPT !.op = "login", !.err = "Unauthorized",
                                      !.msg = LoginError(email, password)]
            /\ UNCHANGED <<ledger, issuedAT>>
       ELSE LET u == CHOOSE x \in FindByEmail(email) : TRUE
                accessToken == generateAccessToken(u, NextJti, now)
                expiresAt == now + (IF rememberMe THEN REMEMBER_ME_EXPIRES_IN
                                                  ELSE JWT_REFRESH_EXPIRES_IN)
                refreshToken == generateRefreshToken(u, Uuid(Len(ledger) + 1), now)
            IN  /\ RoomForRecord
                /\ ledger' = RepoCreate(ledger, u, refreshToken, expiresAt, NoId)
                /\ issuedAT' \in Keep(accessToken)
                /\ last' = [NoLast EXCEPT !.op = "login", !.user = u, !.ok = TRUE,
                                          !.flags = IF rememberMe THEN {"rememberMe"}
                                                                  ELSE {},
                                          !.accessToken = accessToken,
                                          !.refreshToken = refreshToken]
    /\ UNCHANGED <<now, users, redis, timers, procs, hist, mode>>

(* ------------------------------ refresh -------------------------------- *)
Outcome(me, ok, err, msg, path, accessToken, refreshToken) ==
    [NoLast EXCEPT !.op = "refresh", !.tok = me.tok, !.rec = me.rec,
                   !.user = IF IsJwt(me.tok) THEN me.tok.userId ELSE NoUser,
                   !.flags = me.flags,
                   !.ok = ok, !.err = err, !.msg = msg, !.path = path,
                   !.accessToken = accessToken, !.refreshToken = refreshToken]

Fail(me, msg, path) == Outcome(me, FALSE, "Unauthorized", msg, path, NoToken, NoToken)

RowIndex(l, id) == IF RowsById(l, id) = {} THEN 0 ELSE CHOOSE i \in RowsById(l, id) : TRUE

\* history only, noted when a call starts: was the presented token's row
\* there at a mass revocation, has its grace period ended, and is a deferred
\* revocation of the row still to fire?
StartFlags(tok) ==
    LET rec == FindByToken(ledger, tok)
    IN  IF rec = NoRec THEN {}
        ELSE (IF RowIndex(ledger, rec.id) <= hist.password[rec.userId]
              THEN {"postPassword"} ELSE {})
             \cup (IF RowIndex(ledger, rec.id) <= hist.reuse[rec.userId]
                   THEN {"postReuse"} ELSE {})
             \cup (IF rec.gracePeriodEnds # NoTime /\ rec.gracePeriodEnds <= now
                   THEN {"graceOver"} ELSE {})
             \cup (IF \E tm \in timers : tm.old = rec.id
                   THEN {"timerPending"} ELSE {})

\* refresh, up to the return of findByToken: verifyRefreshToken, then the lookup
RefreshFind(p, tok) ==
    /\ last = NoLast
    /\ procs[p].pc = "idle"
    /\ p = "p2" => mode = "race" /\ procs["p1"].pc # "idle"
    /\ IF ~verifyRefreshToken(tok, now)
       THEN /\ last' = Fail([IdleProc EXCEPT !.tok = tok, !.flags = StartFlags(tok)],
                            "Invalid or expired refresh token", "jwt")
            /\ procs' = procs
       ELSE /\ procs' = [procs EXCEPT ![p] =
                    [IdleProc EXCEPT !.pc = "found", !.tok = tok,
                        !.rec = FindByToken(ledger, tok),
                        !.flags = StartFlags(tok)]]
            /\ last' = NoLast
    /\ UNCHANGED <<now, users, ledger, redis, timers, issuedAT, hist, mode>>

\* a grace-period branch that closes the window of the row it has read
GraceBranchOnce(l, rec, t) ==
    [i \in DOMAIN l |->
        IF l[i].id = rec.id THEN [l[i] EXCEPT !.gracePeriodEnds = t] ELSE l[i]]

\* the table after the grace-period branch: it reads the row it was given
\* and calls no repository method
GraceBranch(l, rec, t) == l

\* a refusal that revokes the row it has found
RefusedBranchRevoking(l, rec, t) ==
    IF rec = NoRec THEN l ELSE RepoRevoke(l, rec.id, NoId, t).ledger

\* the table after a refresh is refused for a missing or an expired row:
\* the error is thrown before any repository method is called
RefusedBranch(l, rec, t) == l

GraceActive(rec, t) ==
    /\ rec.gracePeriodToken # NoToken
    /\ rec.gracePeriodEnds # NoTime
    /\ rec.gracePeriodEnds > t

\* refresh, from the lookup's result to the next database call
RefreshCheck(p) ==
    LET me == procs[p]
        rec == me.rec
    IN
    /\ last = NoLast
    /\ me.pc = "found"
    /\ IF rec = NoRec THEN
            /\ last' = Fail(me, "Invalid refresh token", "missing")
            /\ procs' = [procs EXCEPT ![p] = IdleProc]
            /\ ledger' = RefusedBranch(ledger, rec, now)
            /\ UNCHANGED <<issuedAT, hist>>
       ELSE IF rec.revokedAt # NoTime THEN
            \* reuse detection: revokeAllByUserId(payload.userId)
            /\ ledger' = RevokeAllByUserId(ledger, me.tok.userId, now)
            /\ hist' = [hist EXCEPT !.reuse[me.tok.userId] = Len(ledger)]
            /\ procs' = [procs EXCEPT ![p].pc = "reuse"]
            /\ last' = NoLast
            /\ UNCHANGED <<issuedAT>>
       ELSE IF rec.expiresAt < now THEN
            /\ last' = Fail(me, "Refresh token expired", "expired")
            /\ procs' = [procs EXCEPT ![p] = IdleProc]
            /\ ledger' = RefusedBranch(ledger, rec, now)
            /\ UNCHANGED <<issuedAT, hist>>
       ELSE IF GraceActive(rec, now) THEN
            LET accessToken == generateAccessToken(rec.userId, NextJti, now)
            IN  /\ last' = Outcome(me, TRUE, "", "", "grace", accessToken,
                                   rec.gracePeriodToken)
                /\ procs' = [procs EXCEPT ![p] = IdleProc]
                /\ issuedAT' \in Keep(accessToken)
                /\ ledger' = GraceBranch(ledger, rec, now)
                /\ UNCHANGED <<hist>>
       ELSE
            \* automatic rotation: new tokens, new row
            LET refreshToken == generateRefreshToken(rec.userId, Uuid(Len(ledger) + 1), now)
            IN  /\ RoomForRecord
                /\ ledger' = RepoCreate(ledger, rec.userId, refreshToken,
                                        now + JWT_REFRESH_EXPIRES_IN, rec.id)
                /\ procs' = [procs EXCEPT ![p].pc = "created",
                                ![p].newId = RecId(Len(ledger) + 1),
                                ![p].accessToken = generateAccessToken(rec.userId, 0, now),
                                ![p].refreshToken = refreshToken]
                /\ last' = NoLast
                /\ UNCHANGED <<issuedAT, hist>>
    /\ UNCHANGED <<now, users, redis, timers, mode>>

\* refresh (rotation): setGracePeriod on the old row, setTimeout, return
RefreshGrace(p) ==
    LET me == procs[p]
        upd == SetGracePeriod(ledger, me.rec.id, me.refreshToken,
                              REFRESH_GRACE_PERIOD_SECONDS, now)
        accessToken == [me.accessToken EXCEPT !.jti = NextJti]
    IN
    /\ last = NoLast
    /\ me.pc = "created"
    /\ ledger' = upd.ledger
    /\ timers' = IF upd.ok
                 THEN timers \cup {[old |-> me.rec.id, new |-> me.newId,
                                    due |-> now + REFRESH_GRACE_PERIOD_SECONDS]}
                 ELSE timers
    /\ last' = Outcome(me, TRUE, "", "", "rotate", accessToken, me.refreshToken)
    /\ procs' = [procs EXCEPT ![p] = IdleProc]
    /\ issuedAT' \in Keep(accessToken)
    /\ UNCHANGED <<now, users, redis, hist, mode>>

\* refresh (reuse detection): revokeAllUserTokens(payload.userId, 5), throw
RefreshEpoch(p) ==
    LET me == procs[p]
    IN
    /\ last = NoLast
    /\ me.pc = "reuse"
    /\ redis' = RevokeAllUserTokens(redis, me.tok.userId, REUSE_EPOCH_TTL, now)
    /\ hist' = [hist EXCEPT !.epoch[me.tok.userId] =
                    Promised(hist.epoch[me.tok.userId], now, REUSE_EPOCH_TTL),
                            !.detected = hist.detected \cup
                                {a \in issuedAT : a.userId = me.tok.userId}]
    /\ last' = Fail(me, "Token reuse detected. All sessions revoked.", "reuse")
    /\ procs' = [procs EXCEPT ![p] = IdleProc]
    /\ UNCHANGED <<now, users, ledger, timers, issuedAT, mode>>

\* a callback that is dropped without running revoke
TimerFireLost(tm) ==
    /\ last = NoLast
    /\ tm \in timers
    /\ now >= tm.due
    /\ timers' = timers \ {tm}
    /\ last' = NoLast
    /\ UNCHANGED <<now, users, ledger, redis, procs, issuedAT, hist, mode>>

\* a callback without its try/catch: a throw of revoke leaves the callback
DeferredRevokeUncaught(l, tm, t) ==
    LET r == RepoRevoke(l, tm.old, tm.new, t)
    IN  [ledger |-> r.ledger, err |-> IF r.ok THEN "" ELSE "unhandled rejection"]

\* the body of the callback: try { await revoke(old, new) } catch {}
DeferredRevoke(l, tm, t) ==
    LET r == RepoRevoke(l, tm.old, tm.new, t)
    IN  [ledger |-> r.ledger, err |-> ""]

\* the setTimeout callback of a rotation; what leaves the callback reaches
\* the process
TimerFire(tm) ==
    /\ last = NoLast
    /\ tm \in timers
    /\ now >= tm.due
    /\ ledger' = DeferredRevoke(ledger, tm, now).ledger
    /\ timers' = timers \ {tm}
    /\ last' = IF DeferredRevoke(ledger, tm, now).err = "" THEN NoLast
               ELSE [NoLast EXCEPT !.op = "timer", !.err = DeferredRevoke(ledger, tm, now).err]
    /\ UNCHANGED <<now, users, redis, procs, issuedAT, hist, mode>>

\* the out-of-band expiry sweep: deleteExpired()
DeleteExpired ==
    /\ last = NoLast
    /\ RepoDeleteExpired(ledger, now) # ledger
    /\ ledger' = RepoDeleteExpired(ledger, now)
    /\ last' = NoLast
    /\ UNCHANGED <<now, users, redis, timers, procs, issuedAT, hist, mode>>

(* ------------------------------- logout -------------------------------- *)
\* a logout that revokes the row holding the presented token's digest,
\* whether or not the token verifies
LogoutRevokeUnverified(l, refreshToken, t) ==
    IF refreshToken # NoToken /\ FindByToken(l, refreshToken) # NoRec
    THEN RepoRevoke(l, FindByToken(l, refreshToken).id, NoId, t).ledger
    ELSE l

\* if (refreshToken) try { verifyRefreshToken; revoke(payload.tokenId) } catch {}
LogoutRevoke(l, refreshToken, t) ==
    IF refreshToken # NoToken /\ verifyRefreshToken(refreshToken, t)
    THEN RepoRevoke(l, refreshToken.tokenId, NoId, t).ledger
    ELSE l

Logout(accessToken, refreshToken) ==
    /\ last = NoLast
    /\ redis' = BlacklistAdd(redis, accessToken, now)
    /\ ledger' = LogoutRevoke(ledger, refreshToken, now)
    /\ last' = [NoLast EXCEPT !.op = "logout", !.ok = TRUE,
                              !.accessToken = accessToken, !.refreshToken = refreshToken]
    /\ UNCHANGED <<now, users, timers, procs, issuedAT, hist, mode>>

(* --------------------------- updatePassword ---------------------------- *)
UpdatePassword(userId, currentPassword, newPassword) ==
    /\ last = NoLast
    /\ IF userId \notin DOMAIN users THEN
            /\ last' = [NoLast EXCEPT !.op = "updatePassword", !.user = userId,
                                      !.err = "BadRequest", !.msg = "User not found"]
            /\ UNCHANGED <<users, ledger, redis, hist>>
       ELSE IF ~ComparePassword(currentPassword, users[userId]) THEN
            /\ last' = [NoLast EXCEPT !.op = "updatePassword", !.user = userId,
                                      !.err = "Unauthorized",
                                      !.msg = "Current password is incorrect"]
            /\ UNCHANGED <<users, ledger, redis, hist>>
       ELSE
            /\ users' = [users EXCEPT ![userId] = HashPassword(newPassword)]
            /\ ledger' = RevokeAllByUserId(ledger, userId, now)
            /\ redis' = RevokeAllUserTokens(redis, userId, PASSWORD_EPOCH_TTL, now)
            /\ hist' = [hist EXCEPT !.password[userId] = Len(ledger),
                                    !.epoch[userId] =
                                        Promised(hist.epoch[userId], now, PASSWORD_EPOCH_TTL)]
            /\ last' = [NoLast EXCEPT !.op = "updatePassword", !.user = userId, !.ok = TRUE]
    /\ UNCHANGED <<now, timers, procs, issuedAT, mode>>

(* ------------------------------ authGuard ------------------------------ *)
\* what a request may carry as its access_token cookie: nothing, a token a
\* client holds, or such a token signed without an iat claim
WithoutIat(token) == [token EXCEPT !.iat = NoTime]
GuardInputs ==
    issuedAT \cup {NoToken} \cup {WithoutIat(a) : a \in issuedAT} \cup RefreshAsAccess

\* the Redis lookup of a guard check that fails (Redis down, command error)
StoreFaults == {"none", "blacklist", "epoch"}

\* the guard reaches the failing lookup: the token verifies and, for the
\* epoch lookup, the blacklist lookup before it found nothing
StoreFailure(store, token, t, fault) ==
    /\ verifyAccessToken(token, t)
    /\ \/ fault = "blacklist"
       \/ fault = "epoch" /\ ~IsBlacklisted(store, token, t)

\* a guard that swallows the lookup's error and carries on (fail open)
GuardOnFailureOpen(accessToken) ==
    [NoLast EXCEPT !.op = "guard", !.ok = TRUE, !.path = "store",
                   !.user = accessToken.userId, !.email = accessToken.email,
                   !.accessToken = accessToken]

\* catch (error) { next(error) }: the lookup's error rejects the request
GuardOnFailure(accessToken) ==
    [NoLast EXCEPT !.op = "guard", !.err = "Error", !.msg = "Redis error",
                   !.path = "store", !.accessToken = accessToken]

\* what the guard hands to next(): the user, or the error
GuardOutcome(store, accessToken, t, fault) ==
    IF StoreFailure(store, accessToken, t, fault)
    THEN GuardOnFailure(accessToken)
    ELSE IF GuardAdmits(store, accessToken, t)
    THEN [NoLast EXCEPT !.op = "guard", !.ok = TRUE,
                        !.user = accessToken.userId,
                        !.email = accessToken.email,
                        !.accessToken = accessToken]
    ELSE [NoLast EXCEPT !.op = "guard", !.err = "Unauthorized",
                        !.msg = GuardError(store, accessToken, t),
                        !.accessToken = accessToken]

AuthGuard(accessToken, fault) ==
    /\ last = NoLast
    /\ last' = GuardOutcome(redis, accessToken, now, fault)
    /\ UNCHANGED <<now, users, ledger, redis, timers, procs, issuedAT, hist, mode>>

\* the guard has verified the token and awaits the reply to client.get(key)
AuthGuardAwaits(accessToken) ==
    /\ last = NoLast
    /\ verifyAccessToken(accessToken, now)
    /\ last' = [NoLast EXCEPT !.op = "guard", !.path = "await",
                              !.accessToken = accessToken]
    /\ UNCHANGED <<now, users, ledger, redis, timers, procs, issuedAT, hist, mode>>

\* Redis replies (or the connection reports an error) and the guard goes on
StoreAnswers(fault) ==
    /\ last.op = "guard"
    /\ last.path = "await"
    /\ last' = GuardOutcome(redis, last.accessToken, now, fault)
    /\ UNCHANGED <<now, users, ledger, redis, timers, procs, issuedAT, hist, mode>>

(* -------------------------------- clock -------------------------------- *)
Tick ==
    /\ last = NoLast \/ last.path = "await"
    /\ now < TimeBound
    /\ now' = now + 1
    /\ redis' = Live(redis, now + 1)
    /\ hist' = [hist EXCEPT !.epoch = [u \in Users |->
                    IF hist.epoch[u].until > now + 1 THEN hist.epoch[u] ELSE NoEpoch],
                            !.detected = {a \in hist.detected : now + 1 < a.exp}]
    /\ last' = last
    /\ UNCHANGED <<users, ledger, timers, procs, issuedAT, mode>>

\* the response of the call that has just returned reaches its caller
Deliver ==
    /\ last # NoLast
    /\ last.path # "await"
    /\ last' = NoLast
    /\ UNCHANGED <<now, users, ledger, redis, timers, procs, issuedAT, hist, mode>>

Refresh ==
    \/ \E p \in Procs, tok \in HeldRT \cup AccessAsRefresh : RefreshFind(p, tok)
    \/ \E p \in Procs : RefreshCheck(p)
    \/ \E p \in Procs : RefreshGrace(p)
    \/ \E p \in Procs : RefreshEpoch(p)
    \/ \E tm \in timers : TimerFire(tm)

Next ==
    \/ Deliver
    \/ \E u \in Users, pw \in Passwords, rm \in BOOLEAN : Login(Email(u), pw, rm)
    \/ Refresh
    \/ \E a \in issuedAT, r \in HeldRT \cup {NoToken} : Logout(a, r)
    \/ \E u \in Users, cur \in Passwords, new \in NewPasswords : UpdatePassword(u, cur, new)
    \/ \E a \in GuardInputs, f \in StoreFaults : AuthGuard(a, f)
    \/ Tick

NextRace ==
    \/ Deliver
    \/ \E u \in Users, pw \in Passwords, rm \in BOOLEAN : Login(Email(u), pw, rm)
    \/ Refresh
    \/ Tick

Spec == Init /\ [][Next]_vars

SpecRace == InitRace /\ [][NextRace]_vars

\* every operation, for two users; logins without rememberMe, guard checks
\* of tokens as they were issued and against a Redis that answers
NextPair ==
    \/ Deliver
    \/ \E u \in Users, pw \in Passwords : Login(Email(u), pw, FALSE)
    \/ Refresh
    \/ \E a \in issuedAT, r \in HeldRT \cup {NoToken} : Logout(a, r)
    \/ \E u \in Users, cur \in Passwords, new \in NewPasswords : UpdatePassword(u, cur, new)
    \/ \E a \in issuedAT : AuthGuard(a, "none")
    \/ Tick

SpecPair == InitPair /\ [][NextPair]_vars

NextLife ==
    \/ Deliver
    \/ \E u \in Users, pw \in Passwords, rm \in BOOLEAN : Login(Email(u), pw, rm)
    \/ Refresh
    \/ \E a \in GuardInputs, f \in StoreFaults : AuthGuard(a, f)
    \/ Tick

SpecLife == InitLife /\ [][NextLife]_vars

NextSweep ==
    \/ Deliver
    \/ \E u \in Users, pw \in Passwords, rm \in BOOLEAN : Login(Email(u), pw, rm)
    \/ Refresh
    \/ DeleteExpired
    \/ Tick

SpecSweep == InitSweep /\ [][NextSweep]_vars

NextStall ==
    \/ Deliver
    \/ \E u \in Users, pw \in Passwords, rm \in BOOLEAN : Login(Email(u), pw, rm)
    \/ \E a \in issuedAT : AuthGuardAwaits(a)
    \/ \E f \in StoreFaults : StoreAnswers(f)
    \/ Tick

SpecStall == InitStall /\ [][NextStall]_vars

\* SpecStall with its scheduling: the clock advances and a call that has
\* returned is answered. Redis is another process: nothing in the program
\* makes it reply, and no timer of the program ends the wait
SpecStallFair ==
    /\ SpecStall
    /\ WF_vars(Tick)
    /\ WF_vars(Deliver)

\* SpecLife with its scheduling: the clock advances, the event loop runs the
\* callbacks that are due, and a call that has returned is answered
SpecLifeFair ==
    /\ SpecLife
    /\ SF_vars(Tick)
    /\ SF_vars(\E tm \in timers : TimerFire(tm))
    /\ WF_vars(Deliver)

(* ============================== claims ================================== *)
ReuseMessage == "Token reuse detected. All sessions revoked."

\* the rows created by rotating the row `id`
Children(id) == {i \in DOMAIN ledger : ledger[i].parent = id}

\* the token was handed out by login: its row has no parent
LoginIssued(tok) ==
    \E i \in DOMAIN ledger : ledger[i].token = hashToken(tok) /\ ledger[i].parent = NoId

\* the row a chain starts with
RECURSIVE RootOf(_)
RootOf(i) ==
    IF ledger[i].parent = NoId \/ RowsById(ledger, ledger[i].parent) = {}
    THEN i
    ELSE RootOf(RowIndex(ledger, ledger[i].parent))

Chain(r) == {i \in DOMAIN ledger : RootOf(i) = r}

Redeemable(i) == ledger[i].revokedAt = NoTime /\ ~(ledger[i].expiresAt < now)

AllIdle == \A p \in Procs : procs[p].pc = "idle"

(* ---- C1 ---- *)
\* C1 (grace idempotence): a refresh that takes the grace-period branch for R
\* returns the refresh token N that the rotation of R returned, i.e. the
\* token whose digest is stored in a row created by rotating R's row.
C1_GraceReturnsSuccessor ==
    (last.op = "refresh" /\ last.ok /\ last.path = "grace")
        => \E i \in Children(last.rec.id) : ledger[i].token = hashToken(last.refreshToken)

(* ---- C2 ---- *)
\* C2: a refresh that presents the token of a rotated row once the row's
\* grace period has ended fails with the reuse-detected error; the row is
\* never rotated again, whether or not the deferred revocation has run.
C2_NoRotationAfterGrace ==
    (last.op = "refresh" /\ "graceOver" \in last.flags /\ last.path # "jwt")
        => (/\ last.path = "reuse" /\ ~last.ok
            /\ last.err = "Unauthorized" /\ last.msg = ReuseMessage)

(* ---- C3 ---- *)
\* C3: of the concurrent refresh calls that looked up the same Active row,
\* at most one creates a new row: there are never two winning rotations.
C3_SingleWinner ==
    \A p, q \in Procs :
        (/\ p # q
         /\ procs[p].pc = "created" /\ procs[q].pc = "created"
         /\ procs[p].rec.gracePeriodEnds = NoTime
         /\ procs[q].rec.gracePeriodEnds = NoTime)
            => procs[p].rec.id # procs[q].rec.id

(* ---- C4 ---- *)
\* C4 (reuse detection): a refresh whose row is already revoked fails with
\* Unauthorized and the reuse message; when it returns, every row the user
\* owned at the detection is revoked; and every refresh started afterwards
\* with a token of such a row fails with Unauthorized and returns no tokens.
C4_ReuseDetection ==
    /\ (last.op = "refresh" /\ last.rec # NoRec /\ last.rec.revokedAt # NoTime)
            => (/\ ~last.ok /\ last.err = "Unauthorized" /\ last.msg = ReuseMessage
                /\ \A i \in DOMAIN ledger :
                        (ledger[i].userId = last.user /\ i <= hist.reuse[last.user])
                            => ledger[i].revokedAt # NoTime)
    /\ (last.op = "refresh" /\ "postReuse" \in last.flags)
            => (/\ ~last.ok /\ last.err = "Unauthorized"
                /\ last.accessToken = NoToken /\ last.refreshToken = NoToken)

\* a token that was valid until the detection (its row was revoked by the
\* mass revocation, not by a rotation) has been refused
C4_Witness ==
    /\ last.op = "refresh" /\ ~last.ok
    /\ "postReuse" \in last.flags /\ "postPassword" \notin last.flags
    /\ last.rec # NoRec
    /\ last.rec.revokedAt # NoTime /\ last.rec.replacedBy = NoId

(* ---- C5 ---- *)
\* C5: in the state reached when updatePassword returns successfully, the
\* guard rejects every access token of that user issued before the call.
C5_PasswordRevokesAccess ==
    (last.op = "updatePassword" /\ last.ok)
        => \A a \in issuedAT : a.userId = last.user => ~GuardAdmits(redis, a, now)

(* ---- C6 ---- *)
\* C6: a refresh started after a successful updatePassword, with a refresh
\* token of that user issued before that call, fails with Unauthorized and
\* returns no token pair.
C6_PasswordRevokesRefresh ==
    (last.op = "refresh" /\ "postPassword" \in last.flags)
        => (/\ ~last.ok /\ last.err = "Unauthorized"
            /\ last.accessToken = NoToken /\ last.refreshToken = NoToken)

\* a token that still verifies has been refused after the password change
C6_Witness ==
    /\ last.op = "refresh" /\ ~last.ok
    /\ "postPassword" \in last.flags
    /\ verifyRefreshToken(last.tok, now)

(* ---- C7 ---- *)
\* C7: when logout returns, having been given a refresh token that verifies,
\* the row of that refresh token is revoked.
C7_LogoutRevokesRecord ==
    (/\ last.op = "logout"
     /\ last.refreshToken # NoToken
     /\ verifyRefreshToken(last.refreshToken, now))
        => (/\ FindByToken(ledger, last.refreshToken) # NoRec
            /\ FindByToken(ledger, last.refreshToken).revokedAt # NoTime)

(* ---- C8 ---- *)
Blacklisted(a) == IsBlacklisted(redis, a, now) \/ ~verifyAccessToken(a, now)

\* C8: when logout returns, the guard rejects the access token it was given,
\* and a blacklisted access token stays blacklisted until it has expired, so
\* the guard never admits it again.
C8_LogoutBlacklists ==
    /\ [](last.op = "logout" => /\ Blacklisted(last.accessToken)
                                 /\ ~GuardAdmits(redis, last.accessToken, now))
    /\ [][\A a \in issuedAT : Blacklisted(a) => Blacklisted(a)']_vars

\* the guard has refused a logged-out token that has not expired
C8_Witness ==
    /\ last.op = "guard" /\ ~last.ok
    /\ last.msg = "Token has been revoked"
    /\ verifyAccessToken(last.accessToken, now)

(* ---- C9 ---- *)
\* C9: a refresh that presents a token returned by login, before the token
\* and its row have expired, finds the token's row by its digest; if the row
\* is not revoked and has not been rotated yet, the call returns a new
\* access + refresh pair.
C9_LoginTokenRedeemable ==
    (last.op = "refresh" /\ last.path \notin {"jwt", "expired"} /\ LoginIssued(last.tok))
        => /\ last.rec # NoRec
           /\ last.rec.token = hashToken(last.tok)
           /\ (last.rec.revokedAt = NoTime /\ last.rec.gracePeriodToken = NoToken)
                => (/\ last.ok /\ last.path = "rotate"
                    /\ IsJwt(last.accessToken) /\ last.accessToken.key = "access"
                    /\ IsJwt(last.refreshToken) /\ last.refreshToken.key = "refresh"
                    /\ last.refreshToken # last.tok
                    /\ FindByToken(ledger, last.refreshToken) # NoRec)

C9_Witness ==
    /\ last.op = "refresh" /\ last.ok /\ last.path = "rotate"
    /\ LoginIssued(last.tok)

(* ---- C10 ---- *)
\* C10: when no refresh call is in flight and no row of a chain is inside
\* its grace period, the chain has at most one row that is neither revoked
\* nor expired.
C10_OneRedeemablePerChain ==
    AllIdle =>
        \A r \in DOMAIN ledger :
            (\A i \in Chain(r) : ~GraceActive(ledger[i], now))
                => Cardinality({i \in Chain(r) : Redeemable(i)}) <= 1
(* ---- C11 ---- *)
\* C11 (revoked is terminal): a row whose revokedAt is set stays in the table
\* with revokedAt set, whatever step is taken; and every refresh that
\* returns a token pair looked up a row that was not revoked.
C11_RevokedIsTerminal ==
    /\ [][\A i \in DOMAIN ledger :
            ledger[i].revokedAt # NoTime
                => (i \in DOMAIN ledger' /\ ledger'[i].revokedAt # NoTime)]_vars
    /\ []((last.op = "refresh" /\ last.ok)
            => (last.rec # NoRec /\ last.rec.revokedAt = NoTime))

\* the token of a row revoked by its deferred revocation has been refused
C11_Witness ==
    /\ last.op = "refresh" /\ ~last.ok
    /\ last.rec # NoRec
    /\ last.rec.revokedAt # NoTime /\ last.rec.replacedBy # NoId
    /\ last.accessToken = NoToken /\ last.refreshToken = NoToken
(* ---- C12 ---- *)
\* the admission rule in the words of the claim
AdmissionRule(token) ==
    /\ verifyAccessToken(token, now)
    /\ ~IsBlacklisted(redis, token, now)
    /\ \/ GetUserRevocationTimestamp(redis, token.userId, now) = NoTime
       \/ /\ token.iat # NoTime
          /\ ~(token.iat < GetUserRevocationTimestamp(redis, token.userId, now))

\* C12 (guard admission rule): when its Redis lookups answer, the guard
\* admits a request if and only if its token verifies, is not blacklisted,
\* and either the user has no revocation epoch or the token has an iat that does not precede the epoch; on
\* admission the token's userId and email are attached, on rejection nothing.
C12_AdmissionRule ==
    (last.op = "guard" /\ last.path # "store")
        => /\ last.ok <=> AdmissionRule(last.accessToken)
           /\ last.ok => (/\ last.user = last.accessToken.userId
                          /\ last.email = last.accessToken.email)
           /\ ~last.ok => (/\ last.user = NoUser /\ last.email = NoEmail
                           /\ last.err = "Unauthorized")

\* a token issued in the second of the epoch, or later, has been admitted
\* while the epoch exists
C12_Witness ==
    /\ last.op = "guard" /\ last.ok /\ last.path # "store"
    /\ GetUserRevocationTimestamp(redis, last.user, now) # NoTime

\* a token without iat has been rejected because an epoch exists
C12_WitnessNoIat ==
    /\ last.op = "guard" /\ ~last.ok
    /\ last.msg = "Token revocation check failed: missing iat"
(* ---- C13 ---- *)
\* C13 (fail closed): a guard check whose blacklist or epoch lookup fails
\* rejects the request and attaches no identity.
C13_FailClosed ==
    (last.op = "guard" /\ last.path = "store")
        => (/\ ~last.ok
            /\ last.user = NoUser /\ last.email = NoEmail)

\* the epoch lookup has failed for a token that verifies, is not blacklisted
\* and that the guard would admit
C13_Witness ==
    /\ last.op = "guard" /\ last.path = "store" /\ ~last.ok
    /\ GuardAdmits(redis, last.accessToken, now)
(* ---- C14 ---- *)
\* the step of call p that finds the presented token's row revoked
ReuseDetected(p) ==
    /\ procs[p].pc = "found" /\ procs'[p] # procs[p]
    /\ procs[p].rec # NoRec /\ procs[p].rec.revokedAt # NoTime

\* the step of call p that follows the mass revocation of reuse detection
ReuseEpochStep(p) == procs[p].pc = "reuse" /\ procs'[p] # procs[p]

RefreshLifetime(rememberMe) ==
    IF rememberMe THEN REMEMBER_ME_EXPIRES_IN ELSE JWT_REFRESH_EXPIRES_IN

\* C15 (refresh lifetime policy): the refresh token of a login has a signed
\* expiry and a row expiresAt both equal to login time plus the lifetime
\* (30 days with rememberMe, 7 days without), and a refresh presenting a
\* login's token whose row is not revoked succeeds as long as the row's
\* expiresAt has not come.
C15_RefreshLifetime ==
    /\ (last.op = "login" /\ last.ok)
        => /\ getTokenExpiration(last.refreshToken)
                = now + RefreshLifetime("rememberMe" \in last.flags)
           /\ FindByToken(ledger, last.refreshToken).expiresAt
                = now + RefreshLifetime("rememberMe" \in last.flags)
    /\ (/\ last.op = "refresh"
        /\ LoginIssued(last.tok)
        /\ FindByToken(ledger, last.tok).revokedAt = NoTime
        /\ now < FindByToken(ledger, last.tok).expiresAt)
        => last.ok
(* ---- C16 ---- *)
\* the markers of blacklisted tokens in the store
TokenMarkers(store) == {e \in store : e.key[2] = "token"}

\* C16 (blacklist TTL): blacklisting a token that expires N > 0 seconds from
\* now stores the marker with TTL exactly N; isBlacklisted is true right
\* after the call, stays true while fewer than N seconds have elapsed, and is
\* false from then on.
C16_BlacklistTtl ==
    /\ []((last.op = "logout" /\ getTokenExpiration(last.accessToken) - now > 0)
            => /\ IsBlacklisted(redis, last.accessToken, now)
               /\ \A e \in TokenMarkers(redis) :
                    e.key = TokenKey(last.accessToken)
                        => e.until = now + (getTokenExpiration(last.accessToken) - now))
    /\ [][\A e \in TokenMarkers(redis) :
            /\ now' < e.until => IsBlacklisted(redis', e.key[3].h, now')
            /\ now' >= e.until => ~IsBlacklisted(redis', e.key[3].h, now')]_vars

\* a token with one second of its lifetime left has just been blacklisted
C16_Witness ==
    /\ last.op = "logout"
    /\ getTokenExpiration(last.accessToken) - now = 1
    /\ getTokenExpiration(last.accessToken) - last.accessToken.iat > 1
    /\ IsBlacklisted(redis, last.accessToken, now)
(* ---- C17 ---- *)
\* C17 (expired token): blacklisting a token whose expiry has come (TTL 0)
\* writes nothing to the store and does not throw: the logout that asked
\* for it returns normally.
C17_ExpiredIsNoOp ==
    [][(/\ last'.op = "logout" /\ last.op # "logout"
        /\ getTokenExpiration(last'.accessToken) - now <= 0)
            => (redis' = redis /\ last'.ok /\ last'.err = "")]_vars

\* a logout with an expired access token has returned
C17_Witness ==
    /\ last.op = "logout" /\ last.ok
    /\ getTokenExpiration(last.accessToken) <= now
    /\ ~IsBlacklisted(redis, last.accessToken, now)
    /\ TokenMarkers(redis) = {}
(* ---- C18 ---- *)
\* C18 (logout with a bad refresh token): a logout given a refresh token
\* that does not verify (not a JWT, or expired) returns normally, blacklists
\* the access token (when it has lifetime left) and changes no row.
C18_LogoutBadRefresh ==
    [][(/\ last'.op = "logout" /\ last.op # "logout"
        /\ last'.refreshToken # NoToken
        /\ ~verifyRefreshToken(last'.refreshToken, now))
            => (/\ last'.ok /\ last'.err = ""
                /\ ledger' = ledger
                /\ getTokenExpiration(last'.accessToken) - now > 0
                    => IsBlacklisted(redis', last'.accessToken, now))]_vars

\* a logout with an expired refresh token, whose row is still not revoked,
\* has returned and the access token is blacklisted
C18_Witness ==
    /\ last.op = "logout" /\ last.ok
    /\ IsJwt(last.refreshToken) /\ ~verifyRefreshToken(last.refreshToken, now)
    /\ FindByToken(ledger, last.refreshToken) # NoRec
    /\ FindByToken(ledger, last.refreshToken).revokedAt = NoTime
    /\ IsBlacklisted(redis, last.accessToken, now)

\* a logout with a refresh cookie that is no JWT at all has returned
C18_WitnessGarbage ==
    /\ last.op = "logout" /\ last.ok
    /\ last.refreshToken # NoToken /\ ~IsJwt(last.refreshToken)
    /\ IsBlacklisted(redis, last.accessToken, now)
(* ---- C19 ---- *)
\* C19 (updatePassword failures): updatePassword fails with BadRequest when
\* the user does not exist and with Unauthorized when currentPassword is not
\* the user's password; both failures leave the password hashes, every row
\* and the Redis store as they were.
C19_UpdatePasswordFailures ==
    [][\A u \in Users, cur \in Passwords, new \in NewPasswords :
        UpdatePassword(u, cur, new)
            => /\ u \notin DOMAIN users
                    => /\ ~last'.ok /\ last'.err = "BadRequest"
                       /\ users' = users /\ ledger' = ledger /\ redis' = redis
               /\ (u \in DOMAIN users /\ users[u] # HashPassword(cur))
                    => /\ ~last'.ok /\ last'.err = "Unauthorized"
                       /\ users' = users /\ ledger' = ledger /\ redis' = redis]_vars

\* a wrong current password has been refused while the user had a live row
C19_Witness ==
    /\ last.op = "updatePassword" /\ ~last.ok /\ last.err = "Unauthorized"
    /\ last.user \in DOMAIN users
    /\ \E i \in DOMAIN ledger : ledger[i].userId = last.user /\ ledger[i].revokedAt = NoTime
    /\ GetUserRevocationTimestamp(redis, last.user, now) = NoTime

\* a password change for a user that does not exist has been refused
C19_WitnessMissing ==
    /\ last.op = "updatePassword" /\ ~last.ok /\ last.err = "BadRequest"
    /\ last.user \notin DOMAIN users
(* ---- C20 ---- *)
\* what a refused login answers
LoginRefused ==
    [NoLast EXCEPT !.op = "login", !.err = "Unauthorized", !.msg = "Invalid credentials"]

\* C20 (login failures are indistinguishable): a login with an unknown email
\* and a login with a wrong password get the same response, error class and
\* message included; neither returns a token nor creates a row.
C20_LoginFailuresAlike ==
    [][\A u \in Users, pw \in Passwords, rm \in BOOLEAN :
        (/\ Login(Email(u), pw, rm)
         /\ u \notin DOMAIN users \/ users[u] # HashPassword(pw))
            => /\ last' = LoginRefused
               /\ ~last'.ok
               /\ last'.accessToken = NoToken /\ last'.refreshToken = NoToken
               /\ ledger' = ledger /\ issuedAT' = issuedAT]_vars

\* a login has been refused while the table held a row
C20_Witness ==
    /\ last = LoginRefused
    /\ Len(ledger) >= 1
    /\ issuedAT # {}
(* ---- C21 ---- *)
\* what refresh answers when the presented string is not a valid JWT
InvalidRefreshMessage == "Invalid or expired refresh token"

\* C21 (undifferentiated failures): every refresh that fails with
\* Unauthorized for another reason than reuse detection (the JWT does not
\* verify, no row is found, the row has expired) answers one and the same
\* message, the one of a JWT that does not verify.
C21_UndifferentiatedFailure ==
    (/\ last.op = "refresh" /\ ~last.ok /\ last.err = "Unauthorized"
     /\ last.path # "reuse")
        => last.msg = InvalidRefreshMessage
(* ---- C22 ---- *)
\* C22 (expired access token): an access token whose exp has come does not
\* verify, although it is signed with the access secret, and the guard
\* rejects it as invalid or expired whatever Redis holds or answers.
C22_ExpiredAccessRejected ==
    (/\ last.op = "guard"
     /\ IsJwt(last.accessToken) /\ last.accessToken.key = "access"
     /\ getTokenExpiration(last.accessToken) <= now)
        => /\ ~verifyAccessToken(last.accessToken, now)
           /\ ~last.ok
           /\ last.user = NoUser /\ last.email = NoEmail
           /\ last.err = "Unauthorized"
           /\ last.msg = "Invalid or expired access token"

\* an expired token that is neither blacklisted nor older than an epoch has
\* been rejected
C22_Witness ==
    /\ last.op = "guard" /\ ~last.ok
    /\ IsJwt(last.accessToken) /\ last.accessToken.iat # NoTime
    /\ getTokenExpiration(last.accessToken) <= now
    /\ ~IsBlacklisted(redis, last.accessToken, now)
    /\ GetUserRevocationTimestamp(redis, last.accessToken.userId, now) = NoTime
(* ---- C23 ---- *)
\* C23 (grace fields go together): in every row gracePeriodToken and
\* gracePeriodEnds are both set or both null.
C23_GraceFieldsTogether ==
    \A i \in DOMAIN ledger :
        (ledger[i].gracePeriodToken = NoToken) <=> (ledger[i].gracePeriodEnds = NoTime)

\* a rotated row with both fields set next to a row with neither
C23_Witness ==
    /\ \E i \in DOMAIN ledger :
        ledger[i].gracePeriodToken # NoToken /\ ledger[i].gracePeriodEnds # NoTime
    /\ \E i \in DOMAIN ledger :
        ledger[i].gracePeriodToken = NoToken /\ ledger[i].gracePeriodEnds = NoTime
C25_CrossScopeRejected ==
    /\ \A r \in RefreshAsAccess : ~verifyAccessToken(r, now)
    /\ \A a \in AccessAsRefresh : ~verifyRefreshToken(a, now)
    /\ (last.op = "guard" /\ FindByToken(ledger, last.accessToken) # NoRec)
        => (/\ ~last.ok /\ last.user = NoUser
            /\ last.msg = "Invalid or expired access token")
    /\ (last.op = "refresh" /\ last.tok \in AccessAsRefresh)
        => (/\ ~last.ok /\ last.path = "jwt"
            /\ last.accessToken = NoToken /\ last.refreshToken = NoToken)

\* the guard has rejected a refresh token that has not expired and whose row
\* is not revoked
C25_Witness ==
    /\ last.op = "guard" /\ ~last.ok
    /\ FindByToken(ledger, last.accessToken) # NoRec
    /\ FindByToken(ledger, last.accessToken).revokedAt = NoTime
    /\ verifyRefreshToken(last.accessToken, now)

\* refresh has rejected an access token that has not expired
C25_WitnessRefresh ==
    /\ last.op = "refresh" /\ ~last.ok
    /\ last.tok \in issuedAT
    /\ verifyAccessToken(last.tok, now)
(* ---- C26 ---- *)
\* C26 (no reuse detection in the rotation window): a refresh that presents
\* the old token of a rotation after the rotation has returned and before
\* its deferred revocation has fired does not take the reuse-detection
\* branch (which is the one branch of refresh that revokes rows), as long as
\* no mass revocation of the user's rows came before.
C26_NoReuseInWindow ==
    (/\ last.op = "refresh"
     /\ "timerPending" \in last.flags
     /\ "postReuse" \notin last.flags /\ "postPassword" \notin last.flags)
        => last.path # "reuse"
(* ---- C27 ---- *)
\* C27 (epoch protection is never shortened): once an epoch has been written
\* for a user with window W, the guard rejects the user's access tokens
\* issued before that epoch until W has elapsed, whatever runs in between,
\* a later epoch write with a shorter window included.
C27_EpochNeverShortened ==
    \A a \in issuedAT :
        (/\ a.iat < hist.epoch[a.userId].value
         /\ now < hist.epoch[a.userId].until)
            => ~GuardAdmits(redis, a, now)
(* ---- C28 ---- *)
\* row i was created, after a mass revocation that found k rows, by
\* redeeming the token of a row that was there at that revocation
RedeemedAcross(i, k) ==
    /\ ledger[i].parent # NoId
    /\ RowIndex(ledger, ledger[i].parent) <= k
    /\ i > k

\* C28 (mass revocation against a concurrent refresh): once updatePassword
\* (or a reuse-detection refresh) and a refresh call of the same user that
\* started before it have both finished, the user has no non-revoked row
\* that was created by redeeming a token from before the mass revocation.
C28_MassRevocationHolds ==
    AllIdle
        => \A i \in DOMAIN ledger :
            \A k \in {hist.password[ledger[i].userId], hist.reuse[ledger[i].userId]} :
                RedeemedAcross(i, k) => ledger[i].revokedAt # NoTime
(* ---- C29 ---- *)
\* C29 (record linkage): the refresh token that login or a rotation returns
\* carries as tokenId the id of the row created for it, so that revoking by
\* that tokenId revokes the row of the token.
C29_RecordLinkage ==
    (/\ last.op \in {"login", "refresh"} /\ last.ok
     /\ IsJwt(last.refreshToken))
        => /\ FindByToken(ledger, last.refreshToken) # NoRec
           /\ last.refreshToken.tokenId = FindByToken(ledger, last.refreshToken).id
           /\ RepoRevoke(ledger, last.refreshToken.tokenId, NoId, now).ok

(* ---- C30 ---- *)
\* C30 (returned refresh tokens are redeemable): the refresh token string a
\* successful refresh returns, by rotation or by the grace-period branch, is
\* a signed refresh token: it verifies (as long as it has not expired) and
\* findByToken finds its row.
C30_ReturnedTokenIsRedeemable ==
    (last.op = "refresh" /\ last.ok)
        => /\ IsJwt(last.refreshToken)
           /\ verifyRefreshToken(last.refreshToken, last.refreshToken.iat)
           /\ FindByToken(ledger, last.refreshToken) # NoRec
(* ---- C31 ---- *)
\* C31 (reuse detection revokes the sessions): the guard rejects every
\* access token that was issued to the user before a reuse detection, for as
\* long as the token has not expired.
C31_ReuseRevokesAccess ==
    \A a \in hist.detected : now < a.exp => ~GuardAdmits(redis, a, now)
(* ---- C32 ---- *)
\* the epoch entry of the token's user is in force and was written at or
\* before the second the token was issued
IssuedSinceEpoch(a) ==
    /\ GetUserRevocationTimestamp(redis, a.userId, now) # NoTime
    /\ a.iat # NoTime
    /\ a.iat >= GetUserRevocationTimestamp(redis, a.userId, now)

\* C32 (no lockout after mass revocation): an access token that a login
\* returns at or after the moment the user's epoch was written is admitted
\* by the guard while it is unexpired and not blacklisted, although the
\* epoch entry is still in force.
C32_LaterLoginAdmitted ==
    /\ (last.op = "login" /\ last.ok)
        => GuardAdmits(redis, last.accessToken, now)
    /\ (/\ last.op = "guard" /\ last.path # "store"
        /\ IsJwt(last.accessToken)
        /\ IssuedSinceEpoch(last.accessToken)
        /\ verifyAccessToken(last.accessToken, now)
        /\ ~IsBlacklisted(redis, last.accessToken, now))
        => (last.ok /\ last.user = last.accessToken.userId)

\* the guard has admitted the token of a login made after a password change
\* whose epoch is still in force
C32_Witness ==
    /\ last.op = "guard" /\ last.ok
    /\ hist.password[last.user] >= 1
    /\ IssuedSinceEpoch(last.accessToken)
    /\ \E i \in DOMAIN ledger :
        /\ i > hist.password[last.user] /\ ledger[i].parent = NoId
        /\ ledger[i].userId = last.user
(* ---- C33 ---- *)
\* positions a row can have in the table
RowRange == 1 .. (MaxRecords + MaxRaceRecords + MaxLifeRecords)

\* a deferred revocation of row i is pending and comes due within the clock
DuePending(i) ==
    \E tm \in timers : tm.old = RecId(i) /\ tm.due <= TimeBound

C34_DeferredNeverFails ==
    [][\A tm \in timers :
        tm \notin timers'
            => /\ last' = NoLast
               /\ procs' = procs
               /\ timers' = timers \ {tm}
               /\ RowsById(ledger, tm.old) = {} => ledger' = ledger
               /\ \A i \in RowsById(ledger, tm.old) :
                    ledger[i].revokedAt # NoTime => ledger'[i].revokedAt # NoTime]_vars

\* the callback has run after the sweep deleted the old row: the row is gone,
\* was never revoked, and its deferred revocation is no longer pending
C34_Witness ==
    /\ last = NoLast
    /\ \E i \in DOMAIN ledger :
        /\ ledger[i].id = NoId
        /\ ledger[i].gracePeriodToken # NoToken
        /\ ledger[i].revokedAt = NoTime
        /\ \A tm \in timers : tm.old # RecId(i)

\* the callback has run on a row that a reuse detection had already revoked
C34_WitnessRevoked ==
    \E i \in DOMAIN ledger, j \in DOMAIN ledger :
        /\ ledger[i].replacedBy # NoId
        /\ ledger[i].replacedBy = ledger[j].id
        /\ ledger[j].revokedAt # NoTime
        /\ ledger[i].revokedAt > ledger[j].revokedAt
        /\ \A tm \in timers : tm.old # ledger[i].id
(* ---- C35 ---- *)
\* C35 (revoke is idempotent): revoke on a row that is already revoked is
\* not an error and leaves the row as it was: when the callback of a rotation
\* runs on a revoked row, the row keeps its revokedAt and its replacedBy.
C35_RevokeIdempotent ==
    [][\A tm \in timers :
        tm \notin timers'
            => \A i \in RowsById(ledger, tm.old) :
                ledger[i].revokedAt # NoTime
                    => /\ RepoRevoke(ledger, tm.old, tm.new, now).ok
                       /\ ledger'[i].revokedAt = ledger[i].revokedAt
                       /\ ledger'[i].replacedBy = ledger[i].replacedBy]_vars
(* ---- C36 ---- *)
\* C36 (the grace-period branch only mints an access token): a refresh that
\* returns through the grace-period branch hands out an access token of the
\* row's user that is new and valid now, and it creates no row, changes no
\* row, schedules no revocation and writes nothing to Redis.
C36_GraceBranchFrame ==
    [][(last'.op = "refresh" /\ last'.path = "grace" /\ last = NoLast)
        => /\ last'.ok
           /\ verifyAccessToken(last'.accessToken, now)
           /\ last'.accessToken.iat = now
           /\ last'.accessToken.userId = last'.rec.userId
           /\ last'.accessToken \notin issuedAT
           /\ ledger' = ledger
           /\ timers' = timers
           /\ redis' = redis]_vars

\* a refresh has returned through the grace-period branch while the table
\* holds the rotated row, its successor and the pending revocation
C36_Witness ==
    /\ last.op = "refresh" /\ last.path = "grace" /\ last.ok
    /\ \E i \in DOMAIN ledger : ledger[i].id = last.rec.id /\ GraceActive(ledger[i], now)
    /\ \E tm \in timers : tm.old = last.rec.id
(* ---- C37 ---- *)
\* the paths on which a refresh fails without touching the stores
QuietFailures == {"jwt", "missing", "expired"}

\* C37 (failed refreshes leave the stores alone): a refresh that fails because
\* the JWT does not verify, no row holds its digest, or the row has expired
\* changes neither the table nor Redis and schedules nothing, in the lookup
\* step and in the step that refuses it; a failing refresh that did change
\* them is a reuse detection.
C37_FailedRefreshFrame ==
    /\ [][(last = NoLast /\ last'.op = "refresh" /\ ~last'.ok)
            => /\ last'.path \in QuietFailures \cup {"reuse"}
               /\ last'.path \in QuietFailures
                    => ledger' = ledger /\ redis' = redis /\ timers' = timers]_vars
    /\ [][\A p \in Procs :
            (procs[p].pc = "idle" /\ procs'[p].pc = "found")
                => ledger' = ledger /\ redis' = redis /\ timers' = timers]_vars
    /\ [][(ledger' # ledger /\ \E p \in Procs : procs[p].pc = "found" /\ procs'[p].pc = "idle")
            => last'.ok]_vars

\* a refresh was refused because the row of its token has expired. (A token
\* whose row the sweep has deleted no longer verifies: the JWT expires no
\* later than its row, so the lookup of a verified token finds its row.)
C37_Witness ==
    /\ last.op = "refresh" /\ ~last.ok /\ last.path = "expired"
    /\ \E i \in DOMAIN ledger : ledger[i].token = hashToken(last.tok)

\* a refresh was refused because its token does not verify
C37_WitnessJwt ==
    /\ last.op = "refresh" /\ ~last.ok /\ last.path = "jwt"
    /\ ledger # <<>>
(* ---- C38 ---- *)
\* the users on whose behalf the step revokes: the user of a reuse
\* detection (its revocation of the rows and its write of the epoch), of a
\* password change or of a logout
RevokingFor ==
    {procs[p].tok.userId : p \in {q \in Procs : procs[q].pc = "found" /\ procs'[q].pc = "reuse"}}
    \cup (IF last = NoLast /\ last'.op = "refresh" /\ last'.path = "reuse"
          THEN {last'.user} ELSE {})
    \cup (IF last = NoLast /\ last'.op = "updatePassword" THEN {last'.user} ELSE {})
    \cup (IF last = NoLast /\ last'.op = "logout" THEN {last'.accessToken.userId} ELSE {})

\* the Redis entries of a user: the epoch key and the blacklist keys of the
\* user's access tokens
EntriesOf(store, u) ==
    {e \in store : \/ e.key = UserKey(u)
                   \/ \E a \in issuedAT : a.userId = u /\ e.key = TokenKey(a)}

\* C38 (user isolation): a reuse detection, a password change or a logout for
\* one user leaves every row, blacklist entry, epoch and password of any
\* other user as it was, so the other user's access tokens are admitted and
\* the other user's refresh tokens are redeemable exactly as before.
C38_UserIsolation ==
    [][\A A \in RevokingFor : \A B \in Users \ {A} :
        /\ Len(ledger') = Len(ledger)
        /\ \A i \in DOMAIN ledger :
            (ledger[i].userId = B \/ ledger'[i].userId = B)
                => /\ ledger'[i] = ledger[i]
                   /\ Redeemable(i)' = Redeemable(i)
        /\ EntriesOf(redis', B) = EntriesOf(redis, B)
        /\ B \in DOMAIN users => users'[B] = users[B]
        /\ \A b \in issuedAT :
            b.userId = B => /\ b \in issuedAT'
                            /\ GuardAdmits(redis', b, now') = GuardAdmits(redis, b, now)]_vars

\* a reuse detection for one user has returned while another user holds an
\* access token that is admitted and a refresh token that is redeemable
C38_Witness ==
    /\ last.op = "refresh" /\ last.path = "reuse"
    /\ \E B \in Users \ {last.user} :
        /\ \E b \in issuedAT : b.userId = B /\ GuardAdmits(redis, b, now)
        /\ \E i \in DOMAIN ledger : ledger[i].userId = B /\ Redeemable(i)

\* a password change for one user has returned while another user holds an
\* admitted access token and a redeemable refresh token
C38_WitnessPassword ==
    /\ last.op = "updatePassword" /\ last.ok
    /\ \E i \in DOMAIN ledger : ledger[i].userId = last.user /\ ledger[i].revokedAt = now
    /\ \E B \in Users \ {last.user} :
        /\ \E b \in issuedAT : b.userId = B /\ GuardAdmits(redis, b, now)
        /\ \E i \in DOMAIN ledger : ledger[i].userId = B /\ Redeemable(i)

\* a logout of one user has returned while another user holds an admitted
\* access token and a redeemable refresh token
C38_WitnessLogout ==
    /\ last.op = "logout" /\ IsBlacklisted(redis, last.accessToken, now)
    /\ \E B \in Users \ {last.accessToken.userId} :
        /\ \E b \in issuedAT : b.userId = B /\ GuardAdmits(redis, b, now)
        /\ \E i \in DOMAIN ledger : ledger[i].userId = B /\ Redeemable(i)
(* ---- C39 ---- *)
\* the value is the digest of a signed refresh token, and not a token
IsDigestOfRefresh(d) ==
    /\ ~IsJwt(d)
    /\ DOMAIN d = {"h"}
    /\ IsJwt(d.h)
    /\ d.h.key = "refresh"
    /\ d = hashToken(d.h)

\* C39 (only digests are stored): the token field of every row is the digest
\* of a signed refresh token and not the token, the grace-period token field
\* is empty or such a digest, and every lookup of a presented token compares
\* the digest of the token with the token field: it returns a row holding
\* that digest, or nothing when no row holds it.
C39_OnlyDigestsStored ==
    /\ [](\A i \in DOMAIN ledger :
            /\ IsDigestOfRefresh(ledger[i].token)
            /\ \/ ledger[i].gracePeriodToken = NoToken
               \/ IsDigestOfRefresh(ledger[i].gracePeriodToken))
    /\ [][\A p \in Procs :
            (procs[p].pc = "idle" /\ procs'[p].pc = "found")
                => IF \E i \in DOMAIN ledger : ledger[i].token = hashToken(procs'[p].tok)
                   THEN /\ procs'[p].rec # NoRec
                        /\ procs'[p].rec.token = hashToken(procs'[p].tok)
                        /\ procs'[p].rec.token # procs'[p].tok
                   ELSE procs'[p].rec = NoRec]_vars

\* a lookup has found the row of a presented token while a row holds the
\* digest of its successor as grace-period token
C39_Witness ==
    /\ \E p \in Procs :
        /\ procs[p].pc = "found"
        /\ procs[p].rec # NoRec
        /\ procs[p].rec.token = hashToken(procs[p].tok)
    /\ \E i \in DOMAIN ledger, j \in DOMAIN ledger :
        /\ ledger[i].gracePeriodToken # NoToken
        /\ ledger[i].gracePeriodToken = ledger[j].token
(* ---- C40 ---- *)
\* C40 (no operation blocks for ever): a guard check that has sent its
\* lookup to Redis returns to its caller, with the user or with a failure,
\* whether or not Redis replies.
C40_GuardReturns ==
    (last.op = "guard" /\ last.path = "await")
        ~> (last.op = "guard" /\ last.path # "await")
====
